---- MODULE Spec2Model ----
(***************************************************************************)
(* A model of export_meta_data_json.py: the filename normaliser, the JSON  *)
(* merger, the sidecar writer, the orphan cleaner and the directory        *)
(* walker, over a small filesystem of one root directory and one           *)
(* subdirectory.                                                           *)
(*                                                                         *)
(* Three specifications:                                                   *)
(*   SpecFix    fix_floating_point_filenames applied to every filename up  *)
(*              to MaxLen characters                                       *)
(*   SpecMerge  merge_json_data applied to every pair of ordered mappings  *)
(*              over Keys                                                  *)
(*   Spec       calls of process_image_files and clean_orphaned_files, in  *)
(*              any order and with any arguments, on the filesystem        *)
(***************************************************************************)
EXTENDS Integers, Sequences, FiniteSets, TLC

VARIABLES
    filename,       \* SpecFix: the filename handed to fix_floating_point_filenames
    fixed,          \* SpecFix: the results of the successive applications
    halfUp,         \* SpecFix: direction float formatting takes on an exact ...5 tie
    existing_json,  \* SpecMerge: first argument of merge_json_data
    new_json,       \* SpecMerge: second argument of merge_json_data
    merged,         \* SpecMerge: <<result>> once merge_json_data has run
    files,          \* Spec: the filesystem, path -> content, for the paths that exist
    dirs,           \* Spec: the subdirectories of the root that exist
    args,           \* Spec: what the current process_image_files call hands to write_metadata
    pc,             \* Spec: "idle" | "walk" (in process_image_files) | "returned" | "crashed"
    todo,           \* Spec: images of the directory listing not yet processed
    result          \* Spec: what the last handler call did

vars == <<filename, fixed, halfUp, existing_json, new_json, merged,
          files, dirs, args, pc, todo, result>>

fixVars   == <<filename, fixed, halfUp>>
mergeVars == <<existing_json, new_json, merged>>
mainVars  == <<files, dirs, args, pc, todo, result>>

Range(s) == {s[i] : i \in 1..Len(s)}

(***************************************************************************)
(* Bounds                                                                  *)
(***************************************************************************)
MaxLen == 5
MaxFiles == 1

(***************************************************************************)
(* fix_floating_point_filenames                                            *)
(*                                                                         *)
(* A filename is a sequence of one-character strings.                      *)
(***************************************************************************)
Digits == <<"0", "1", "2", "3", "4", "5", "6", "7", "8", "9">>

IsDigit(c) == c \in Range(Digits)

DigitVal(c) == (CHOOSE i \in 1..10 : Digits[i] = c) - 1

\* End of the maximal run of digits of s that starts at i (i - 1 when s[i] is no digit).
RECURSIVE DigitRunEnd(_, _)
DigitRunEnd(s, i) ==
    IF i <= Len(s) /\ IsDigit(s[i]) THEN DigitRunEnd(s, i + 1) ELSE i - 1

\* Where a match of \d+\.\d+ that starts at i ends, 0 when there is none. \d+ is
\* greedy and a shorter run of digits is followed by a digit, never by the point.
MatchEnd(s, i) ==
    LET e == DigitRunEnd(s, i) IN
    IF e >= i /\ e + 2 <= Len(s) /\ s[e + 1] = "." /\ IsDigit(s[e + 2])
    THEN DigitRunEnd(s, e + 2)
    ELSE 0

\* Start of the leftmost match at or after i, 0 when there is none.
RECURSIVE NextMatch(_, _)
NextMatch(s, i) ==
    IF i > Len(s) THEN 0
    ELSE IF MatchEnd(s, i) > 0 THEN i
    ELSE NextMatch(s, i + 1)

\* re.split(r'(\d+\.\d+)', s) from position i: text, match, text, ..., text.
RECURSIVE SplitFrom(_, _)
SplitFrom(s, i) ==
    LET m == NextMatch(s, i) IN
    IF m = 0 THEN <<SubSeq(s, i, Len(s))>>
    ELSE <<SubSeq(s, i, m - 1), SubSeq(s, m, MatchEnd(s, m))>>
         \o SplitFrom(s, MatchEnd(s, m) + 1)

ReSplit(s) == SplitFrom(s, 1)

\* re.match(r'\d+\.\d+', part): a match anchored at the start of part.
ReMatch(part) == MatchEnd(part, 1) > 0

RECURSIVE DigitsValue(_)
DigitsValue(ds) ==
    IF ds = <<>> THEN 0
    ELSE 10 * DigitsValue(SubSeq(ds, 1, Len(ds) - 1)) + DigitVal(ds[Len(ds)])

RECURSIVE ToDigits(_)
ToDigits(n) ==
    IF n < 10 THEN <<Digits[n + 1]>>
    ELSE Append(ToDigits(n \div 10), Digits[(n % 10) + 1])

\* A plausible slip: one digit after the point (f"{float(part):.1f}"), truncated.
FormatFloat1(part, up) ==
    LET dot  == DigitRunEnd(part, 1) + 1
        ip   == DigitsValue(SubSeq(part, 1, dot - 1))
        frac == SubSeq(part, dot + 1, Len(part))
        d1   == DigitVal(frac[1])
        tot  == ip * 10 + d1
    IN ToDigits(tot \div 10) \o <<".">> \o <<Digits[(tot % 10) + 1]>>

\* f"{float(part):.2f}" for part = digits "." digits. The value is rounded to
\* hundredths; when the decimal lies exactly half way, the direction is that of the
\* binary double nearest to it (half-even when the double is exact), which is not
\* computed here: up stands for it, and both directions are explored.
FormatFloat2(part, up) ==
    LET dot  == DigitRunEnd(part, 1) + 1
        ip   == DigitsValue(SubSeq(part, 1, dot - 1))
        frac == SubSeq(part, dot + 1, Len(part))
        d1   == DigitVal(frac[1])
        d2   == IF Len(frac) >= 2 THEN DigitVal(frac[2]) ELSE 0
        d3   == IF Len(frac) >= 3 THEN DigitVal(frac[3]) ELSE 0
        rest == SubSeq(frac, 4, Len(frac))
        more == \E i \in 1..Len(rest) : rest[i] # "0"
        inc  == IF d3 > 5 \/ (d3 = 5 /\ more) THEN 1
                ELSE IF d3 = 5 /\ up THEN 1
                ELSE 0
        tot  == ip * 100 + d1 * 10 + d2 + inc
    IN ToDigits(tot \div 100) \o <<".">>
       \o <<Digits[((tot \div 10) % 10) + 1], Digits[(tot % 10) + 1]>>

RECURSIVE Join(_)
Join(parts) ==
    IF parts = <<>> THEN <<>> ELSE Head(parts) \o Join(Tail(parts))

\* fix_floating_point_filenames, with the direction float formatting takes on ties.
FixWith(name, up) ==
    LET parts == ReSplit(name)
        out   == [i \in 1..Len(parts) |->
                     IF ReMatch(parts[i]) THEN FormatFloat2(parts[i], up)
                     ELSE parts[i]]
    IN Join(out)

fix_floating_point_filenames(name) == FixWith(name, halfUp)

(***************************************************************************)
(* merge_json_data                                                         *)
(*                                                                         *)
(* An OrderedDict is a sequence of entries with distinct keys, in          *)
(* insertion order. An entry holds a key and its value: a scalar v, or,    *)
(* for a list value, the list.                                             *)
(***************************************************************************)
PTP == "post_training_processing"

HasKey(d, key) == \E i \in 1..Len(d) : d[i].k = key

DictGet(d, key) == d[CHOOSE i \in 1..Len(d) : d[i].k = key]

KeysOf(d) == [i \in 1..Len(d) |-> d[i].k]

\* d[key] = value of e: in place when the key is there, at the end when it is new.
DictSet(d, e) ==
    IF HasKey(d, e.k)
    THEN [i \in 1..Len(d) |-> IF d[i].k = e.k THEN e ELSE d[i]]
    ELSE Append(d, e)

\* for key, value in src.items(): if key != PTP: acc[key] = value
RECURSIVE CopyRest(_, _)
CopyRest(acc, src) ==
    IF src = <<>> THEN acc
    ELSE CopyRest(IF Head(src).k # PTP THEN DictSet(acc, Head(src)) ELSE acc,
                  Tail(src))

\* for key, value in src.items(): if key != PTP and key not in acc: acc[key] = value
RECURSIVE CopyAbsent(_, _)
CopyAbsent(acc, src) ==
    IF src = <<>> THEN acc
    ELSE CopyAbsent(IF Head(src).k # PTP /\ ~HasKey(acc, Head(src).k)
                    THEN DictSet(acc, Head(src)) ELSE acc,
                    Tail(src))

merge_json_data_Mut(existing, incoming) ==
    LET top == IF HasKey(existing, PTP) THEN <<DictGet(existing, PTP)>>
               ELSE IF HasKey(incoming, PTP) THEN <<DictGet(incoming, PTP)>>
               ELSE <<>>
    IN CopyRest(CopyRest(top, existing), incoming)

merge_json_data(existing, incoming) ==
    LET top == IF HasKey(existing, PTP) THEN <<DictGet(existing, PTP)>>
               ELSE IF HasKey(incoming, PTP) THEN <<DictGet(incoming, PTP)>>
               ELSE <<>>
    IN CopyAbsent(CopyRest(top, existing), incoming)

(***************************************************************************)
(* The filesystem                                                          *)
(*                                                                         *)
(* A path is [dir, stem, ext]: Path(dir) / (stem + "." + ext), with dir    *)
(* "root" (the directory argument) or "sub" (root/sub). A file's content   *)
(* is [kind, meta, doc]:                                                   *)
(*   kind "image"  meta is what PIL reads from it (img.info and EXIF), a   *)
(*                 sequence of values in the mapping's order               *)
(*   kind "json"   doc is what json.load makes of its bytes                *)
(*   kind "txt"    meta is the "key: value" lines written                  *)
(*                                                                         *)
(* A JSON text is [valid, obj, map]: whether json.loads accepts it,        *)
(* whether it decodes to an object, and the object as an OrderedDict.      *)
(* A metadata value is [str, doc]: whether it is a str, and the JSON text  *)
(* it holds (valid = FALSE for a str that is not JSON).                    *)
(***************************************************************************)
S1 == <<"1", ".", "1">>
S2 == <<"1", ".", "1", "0">>

\* The stems of the model's files, and fix_floating_point_filenames on each (none
\* holds a tie, so the direction on ties does not matter).
Stems == {S1, S2}

FixedStem == [s \in Stems |-> FixWith(s, FALSE)]

NoDoc == [valid |-> FALSE, obj |-> FALSE, map |-> <<>>]

Obj(map) == [valid |-> TRUE, obj |-> TRUE, map |-> map]

\* A valid JSON text that is no object: "42", "[1]", "null".
NonObj == [valid |-> TRUE, obj |-> FALSE, map |-> <<>>]

Scalar(key, v) == [k |-> key, v |-> v, list |-> <<>>]

List(key, list) == [k |-> key, v |-> 0, list |-> list]

TextValue == [str |-> TRUE, doc |-> NoDoc]

NonStrValue == [str |-> FALSE, doc |-> NoDoc]

JsonValue(doc) == [str |-> TRUE, doc |-> doc]

NoCmd == ""

Image(meta) == [kind |-> "image", meta |-> meta, doc |-> NoDoc]

JsonFile(doc) == [kind |-> "json", meta |-> <<>>, doc |-> doc]

TxtFile(meta) == [kind |-> "txt", meta |-> meta, doc |-> NoDoc]

NoPath == [dir |-> "", stem |-> <<>>, ext |-> ""]

DirPath(d) == [dir |-> d, stem |-> <<>>, ext |-> ""]

\* str.lower() on the extensions that occur.
Lower(ext) ==
    CASE ext = "PNG" -> "png"
      [] ext = "JPG" -> "jpg"
      [] ext = "JPEG" -> "jpeg"
      [] ext = "JSON" -> "json"
      [] ext = "TXT" -> "txt"
      [] OTHER -> ext

\* Path.with_suffix('.' + ext)
WithSuffix(p, ext) == [p EXCEPT !.ext = ext]

\* path.with_name(fix_floating_point_filenames(path.stem) + path.suffix)
FixedName(p) == [p EXCEPT !.stem = FixedStem[p.stem]]

Exists(fs, p) == p \in DOMAIN fs

\* os.rename on POSIX: the target, when there is one, is replaced.
Moved(fs, from, to) ==
    [q \in (DOMAIN fs \ {from}) \cup {to} |-> IF q = to THEN fs[from] ELSE fs[q]]

\* open(p, 'w').write(...)
Written(fs, p, content) ==
    [q \in DOMAIN fs \cup {p} |-> IF q = p THEN content ELSE fs[q]]

Removed(fs, gone) == [q \in DOMAIN fs \ gone |-> fs[q]]

\* One line of console output: what was done (dry = FALSE) or would be (dry = TRUE).
Msg(act, path, to, dry) == [act |-> act, path |-> path, to |-> to, dry |-> dry]

\* The decisions a log reports, whatever the "Dry run: Would" qualifier: the
\* renames, the sidecar written and its path, the deletions.
Decisions(log) ==
    {[act |-> e.act, path |-> e.path, to |-> e.to] :
        e \in {m \in log : m.act \in {"rename", "overwrite", "save_txt",
                                       "delete", "rmdir", "no_metadata"}}}

(***************************************************************************)
(* rename_file. faults is the set of system calls that fail during the     *)
(* call ("rename", "write", "remove"): the environment's choice.           *)
(***************************************************************************)
rename_file_always(fs, path, new_path, dry_run, faults) ==
    IF path = new_path THEN [files |-> fs, log |-> {}]
    ELSE IF "rename" \in faults \/ ~Exists(fs, path)
    THEN [files |-> fs, log |-> {Msg("rename_error", path, new_path, FALSE)}]
    ELSE [files |-> Moved(fs, path, new_path),
          log |-> {Msg("rename", path, new_path, FALSE)}]

rename_file(fs, path, new_path, dry_run, faults) ==
    IF path = new_path THEN [files |-> fs, log |-> {}]
    ELSE IF dry_run
    THEN [files |-> fs, log |-> {Msg("rename", path, new_path, TRUE)}]
    ELSE IF "rename" \in faults \/ ~Exists(fs, path)
    THEN [files |-> fs, log |-> {Msg("rename_error", path, new_path, FALSE)}]
    ELSE [files |-> Moved(fs, path, new_path),
          log |-> {Msg("rename", path, new_path, FALSE)}]

(***************************************************************************)
(* write_metadata                                                          *)
(*                                                                         *)
(* The value is [files, status, log, written, image, sidecars]:            *)
(*   files     the filesystem when the call ends                           *)
(*   status    "json" | "txt" (the sidecar variant chosen), "skipped" (the *)
(*             already-processed return) or "raised" (an exception left    *)
(*             the call)                                                   *)
(*   log       the messages printed                                        *)
(*   written   the sidecar written, NoPath when none was                   *)
(*   image     where the image is when the call ends                       *)
(*   sidecars  the sidecars the call renamed or wrote, where they are then *)
(* Sidecar documents are invalid JSON or JSON objects; a sidecar holding   *)
(* another JSON value is not modelled. The call is a chain of operators,   *)
(* one per step, each handing the call's state (a Frame) to the next.      *)
(***************************************************************************)
is_json(value) == value.doc.valid

\* The first value that is a str and valid JSON; 0 when there is none.
FirstJson(metadata) ==
    IF \E i \in 1..Len(metadata) : metadata[i].str /\ is_json(metadata[i])
    THEN CHOOSE i \in 1..Len(metadata) :
            /\ metadata[i].str /\ is_json(metadata[i])
            /\ \A j \in 1..(i - 1) : ~(metadata[j].str /\ is_json(metadata[j]))
    ELSE 0

Outcome(fs, status, log, written, image, sidecars) ==
    [files |-> fs, status |-> status, log |-> log, written |-> written,
     image |-> image, sidecars |-> sidecars]

\* The state of a write_metadata call between its steps: the filesystem, the log so
\* far, the two path variables, the sidecar document loaded (<<>> for None) and the
\* sidecars renamed so far.
Frame(fs, log, image_path, existing_json_path, existing_json_doc, sidecars) ==
    [files |-> fs, log |-> log, image_path |-> image_path,
     existing_json_path |-> existing_json_path,
     existing_json_doc |-> existing_json_doc, sidecars |-> sidecars]

\* Where the image of the call is: under its new name once a rename has moved it.
ImageOf(fs, image_path, fixed_image) == IF Exists(fs, image_path) THEN image_path ELSE fixed_image

Raised(f, image) == Outcome(f.files, "raised", f.log, NoPath, image, f.sidecars)

\* lines 181-191: the .txt sidecar (lines 169-180, the same under except, cannot run:
\* is_json has already parsed the value)
SaveTxt(f, image, metadata, o) ==
    IF o.dry_run
    THEN Outcome(f.files, "txt",
                 f.log \cup {Msg("save_txt", WithSuffix(f.image_path, "txt"), NoPath, TRUE)},
                 NoPath, image, f.sidecars)
    ELSE IF "write" \in o.faults
    THEN Raised(f, image)
    ELSE Outcome(Written(f.files, WithSuffix(f.image_path, "txt"),
                         TxtFile(metadata)),
                 "txt",
                 f.log \cup {Msg("save_txt", WithSuffix(f.image_path, "txt"), NoPath, FALSE)},
                 WithSuffix(f.image_path, "txt"), image,
                 f.sidecars \cup {WithSuffix(f.image_path, "txt")})

\* lines 154-168: merge with the sidecar loaded, when it is not empty, and write
SaveJson(f, image, parsed_json, o) ==
    IF o.dry_run
    THEN Outcome(f.files, "json",
                 f.log \cup {Msg("overwrite", f.existing_json_path, NoPath, TRUE)},
                 NoPath, image, f.sidecars)
    ELSE IF "write" \in o.faults
    THEN Raised(f, image)
    ELSE Outcome(Written(f.files, f.existing_json_path,
                         JsonFile(Obj(IF f.existing_json_doc # <<>>
                                      THEN merge_json_data(f.existing_json_doc,
                                                           parsed_json)
                                      ELSE parsed_json))),
                 "json",
                 f.log \cup {Msg("overwrite", f.existing_json_path, NoPath, FALSE)},
                 f.existing_json_path, image,
                 f.sidecars \cup {f.existing_json_path})

\* parsed_json["post_training_processing"].append(command)
AppendCommand(parsed_json, command) ==
    DictSet(parsed_json, List(PTP, Append(DictGet(parsed_json, PTP).list, command)))

\* lines 147-152: the already-processed return, else the command is appended.
\* The list looked at is that of the image's embedded JSON.
CheckProcessed(f, image, parsed_json, o) ==
    IF o.command \in Range(DictGet(parsed_json, PTP).list) /\ ~o.force_json
    THEN Outcome(f.files, "skipped",
                 f.log \cup {Msg("skip", f.image_path, NoPath, FALSE)},
                 NoPath, image, f.sidecars)
    ELSE SaveJson(f, image, AppendCommand(parsed_json, o.command), o)

\* lines 144-145: if "post_training_processing" not in parsed_json: ... = []
EnsureList(parsed_json) ==
    IF HasKey(parsed_json, PTP) THEN parsed_json
    ELSE DictSet(parsed_json, List(PTP, <<>>))

\* lines 132-145: the first JSON value decides the variant. A JSON value that is no
\* object raises a TypeError at line 144 or 145, which line 169 does not catch.
Persist(f, image, metadata, j, o) ==
    IF j = 0 THEN SaveTxt(f, image, metadata, o)
    ELSE IF ~metadata[j].doc.obj THEN Raised(f, image)
    ELSE CheckProcessed(f, image, EnsureList(metadata[j].doc.map), o)

\* lines 125-129: the image is renamed when fix_filenames is set; image_path follows
\* unless dry_run, whether or not the rename succeeded.
AfterImageRename(f, r, old, fixed_image, metadata, o) ==
    Persist(Frame(r.files, f.log \cup r.log,
                  IF o.fix_filenames /\ ~o.dry_run THEN fixed_image ELSE old,
                  f.existing_json_path, f.existing_json_doc, f.sidecars),
            ImageOf(r.files, old, fixed_image), metadata, FirstJson(metadata), o)

RenameImage(f, fixed_image, metadata, o) ==
    AfterImageRename(f,
                     IF o.fix_filenames
                     THEN rename_file(f.files, f.image_path, fixed_image, o.dry_run, o.faults)
                     ELSE [files |-> f.files, log |-> {}],
                     f.image_path, fixed_image, metadata, o)

\* lines 120-122: open and json.load, in no try: a missing file or invalid JSON raises.
LoadExisting(f, fixed_image, metadata, o) ==
    IF ~Exists(f.files, f.existing_json_path)
       \/ ~f.files[f.existing_json_path].doc.valid
    THEN Raised(f, f.image_path)
    ELSE RenameImage(Frame(f.files,
                           f.log \cup {Msg("found", f.existing_json_path, NoPath, FALSE)},
                           f.image_path, f.existing_json_path,
                           f.files[f.existing_json_path].doc.map, f.sidecars),
                     fixed_image, metadata, o)

\* lines 116-119: the sidecar is renamed before it is read; existing_json_path
\* follows unless dry_run, whether or not the rename succeeded.
AfterSidecarRename(r, image_path, json0, fixed_json, fixed_image, metadata, o) ==
    LoadExisting(Frame(r.files, r.log, image_path,
                       IF o.dry_run THEN json0 ELSE fixed_json, <<>>,
                       IF Exists(r.files, fixed_json) /\ ~Exists(r.files, json0)
                       THEN {fixed_json} ELSE {}),
                 fixed_image, metadata, o)

\* lines 113-115
FindExisting(fs, image_path, json0, fixed_image, metadata, o) ==
    IF Exists(fs, json0)
    THEN AfterSidecarRename(rename_file(fs, json0, FixedName(json0), o.dry_run, o.faults),
                            image_path, json0, FixedName(json0), fixed_image, metadata, o)
    ELSE RenameImage(Frame(fs, {}, image_path, json0, <<>>, {}), fixed_image, metadata, o)

write_metadata(fs, image_path, metadata, dry_run, fix_filenames, command, force_json, faults) ==
    FindExisting(fs, image_path, WithSuffix(image_path, "json"), FixedName(image_path),
                 metadata,
                 [dry_run |-> dry_run, fix_filenames |-> fix_filenames,
                  command |-> command, force_json |-> force_json, faults |-> faults])

\* extract_image_metadata: the metadata, <<>> for None (nothing found, or the file
\* cannot be opened as an image).
extract_image_metadata(fs, image_path) ==
    IF Exists(fs, image_path) /\ fs[image_path].kind = "image"
    THEN fs[image_path].meta
    ELSE <<>>

(***************************************************************************)
(* clean_orphaned_files                                                    *)
(*                                                                         *)
(* The value is [files, dirs, log]. Whether an image exists does not       *)
(* depend on the sidecars removed before, so the order of the listing      *)
(* does not matter; with recursive the walk is bottom-up, and the          *)
(* subdirectories of the root are looked at after the files of both.       *)
(***************************************************************************)
ImageExts == {"png", "jpg", "jpeg"}

SidecarExts == {"json", "txt"}

\* lines 205-210 and 237-242: image_path.exists() for .png, .jpg, .jpeg in turn
NoImageFor(fs, p) ==
    /\ ~Exists(fs, WithSuffix(p, "png"))
    /\ ~Exists(fs, WithSuffix(p, "jpg"))
    /\ ~Exists(fs, WithSuffix(p, "jpeg"))

\* The directories whose files the call lists.
Visited(ds, recursive) == IF recursive THEN {"root"} \cup ds ELSE {"root"}

clean_orphaned_files(fs, ds, recursive, dry_run, faults) ==
    LET orphans == {p \in DOMAIN fs :
                       /\ p.dir \in Visited(ds, recursive)
                       /\ Lower(p.ext) \in SidecarExts
                       /\ NoImageFor(fs, p)}
        gone    == IF dry_run \/ "remove" \in faults THEN {} ELSE orphans
        fs1     == Removed(fs, gone)
        \* lines 221-231: os.listdir(dir_path) is empty
        empty   == IF recursive
                   THEN {d \in ds : \A p \in DOMAIN fs1 : p.dir # d}
                   ELSE {}
        rmdirs  == IF dry_run \/ "remove" \in faults THEN {} ELSE empty
    IN [files |-> fs1,
        dirs  |-> ds \ rmdirs,
        log   |-> {Msg(IF p \in gone \/ dry_run THEN "delete" ELSE "delete_error",
                       p, NoPath, dry_run) : p \in orphans}
                  \cup {Msg(IF d \in rmdirs \/ dry_run THEN "rmdir" ELSE "rmdir_error",
                            DirPath(d), NoPath, dry_run) : d \in empty}]

(***************************************************************************)
(* The inputs: filesystems of at most MaxFiles files, and the arguments of *)
(* the calls.                                                              *)
(***************************************************************************)
Commands == {"cmd_a", "cmd_b"}

\* What an image can hold.
Metas ==
    { <<>>,                                             \* nothing
      <<NonStrValue, TextValue>>,                       \* no JSON value
      <<TextValue, JsonValue(Obj(<<Scalar("a", 1)>>))>>, \* an object, no PTP key
      <<JsonValue(Obj(<<Scalar("a", 1), List(PTP, <<"cmd_a">>)>>))>>,
      <<JsonValue(NonObj)>> }                           \* JSON, but no object

\* What a .json sidecar found at the start can hold.
Docs == { NoDoc, Obj(<<Scalar("b", 2), Scalar("a", 9)>>) }

\* Where the files found at the start can be. Their stem is not normalised;
\* normalised names come from the renames.
Paths ==
    {[dir |-> "root", stem |-> S1, ext |-> e] :
        e \in {"png", "PNG", "json", "txt"}}
    \cup {[dir |-> "sub", stem |-> S1, ext |-> e] : e \in {"png", "txt"}}

InitialContent(p, meta, doc) ==
    IF Lower(p.ext) \in ImageExts THEN Image(meta)
    ELSE IF p.ext = "json" THEN JsonFile(doc)
    ELSE TxtFile(<<TextValue>>)

\* The arguments process_image_files hands on to write_metadata.
Args ==
    [dry_run : BOOLEAN, fix_filenames : BOOLEAN, force_json : BOOLEAN,
     command : Commands]

NoArgs ==
    [dry_run |-> FALSE, fix_filenames |-> FALSE, force_json |-> FALSE,
     command |-> NoCmd]

NoTwin == [status |-> "", decisions |-> {}]

NoResult ==
    [op |-> "none", arg |-> NoPath, dry_run |-> FALSE, status |-> "", log |-> {},
     twin |-> NoTwin, faults |-> {}, written |-> NoPath, image |-> NoPath,
     sidecars |-> {}]

(***************************************************************************)
(* Spec: process_image_files and clean_orphaned_files on the filesystem    *)
(***************************************************************************)
FixIdle ==
    /\ filename = <<>>
    /\ fixed = <<>>
    /\ halfUp = FALSE

MergeIdle ==
    /\ existing_json = <<>>
    /\ new_json = <<>>
    /\ merged = <<>>

MainIdle ==
    /\ files = <<>>
    /\ dirs = {}
    /\ args = NoArgs
    /\ pc = "idle"
    /\ todo = {}
    /\ result = NoResult

Init ==
    /\ FixIdle
    /\ MergeIdle
    /\ \E ps \in SUBSET Paths : \E meta \in Metas : \E doc \in Docs :
          /\ Cardinality(ps) <= MaxFiles
          /\ files = [p \in ps |-> InitialContent(p, meta, doc)]
          /\ \E ds \in SUBSET {"sub"} :
                /\ \A p \in ps : p.dir = "root" \/ p.dir \in ds
                /\ dirs = ds
    /\ args = NoArgs
    /\ pc = "idle"
    /\ todo = {}
    /\ result = NoResult

\* The image files process_image_files finds: os.listdir(directory), or os.walk.
Listing(fs, ds, recursive) ==
    {p \in DOMAIN fs :
        p.dir \in Visited(ds, recursive) /\ Lower(p.ext) \in ImageExts}

\* process_image_files is called: lines 256-258 and 270-271.
Start(recursive, a) ==
    /\ pc = "idle"
    /\ args' = a
    /\ todo' = Listing(files, dirs, recursive)
    /\ pc' = IF todo' = {} THEN "returned" ELSE "walk"
    /\ result' = [NoResult EXCEPT !.op = "start", !.dry_run = a.dry_run]
    /\ UNCHANGED <<files, dirs>>
    /\ UNCHANGED <<fixVars, mergeVars>>

\* os.walk yields the root's files before the subdirectory's.
IsNext(p) ==
    /\ p \in todo
    /\ p.dir = "root" \/ \A q \in todo : q.dir # "root"

\* What a write_metadata call leaves: w is the call, tw the same call with dry_run
\* inverted, on the same filesystem.
Wrote(p, faults, w, tw) ==
    /\ files' = w.files
    /\ result' = [op |-> "write", arg |-> p, dry_run |-> args.dry_run,
                  status |-> w.status, log |-> w.log,
                  twin |-> [status |-> tw.status, decisions |-> Decisions(tw.log)],
                  faults |-> faults, written |-> w.written,
                  image |-> w.image, sidecars |-> w.sidecars]
    /\ todo' = todo \ {p}
    /\ pc' = IF w.status = "raised" THEN "crashed"
             ELSE IF todo' = {} THEN "returned" ELSE "walk"

\* One turn of the loop for an image with metadata: lines 261-266 and 273-278.
\* An exception that leaves write_metadata leaves process_image_files too.
ProcessImage(p, faults) ==
    /\ pc = "walk"
    /\ IsNext(p)
    /\ extract_image_metadata(files, p) # <<>>
    /\ Wrote(p, faults,
             write_metadata(files, p, extract_image_metadata(files, p), args.dry_run,
                            args.fix_filenames, args.command, args.force_json, faults),
             write_metadata(files, p, extract_image_metadata(files, p), ~args.dry_run,
                            args.fix_filenames, args.command, args.force_json, faults))
    /\ UNCHANGED <<dirs, args>>
    /\ UNCHANGED <<fixVars, mergeVars>>

\* One turn of the loop for an image without metadata: lines 267-268 and 279-280.
SkipImage(p) ==
    /\ pc = "walk"
    /\ IsNext(p)
    /\ extract_image_metadata(files, p) = <<>>
    /\ result' = [NoResult EXCEPT !.op = "no_metadata", !.arg = p,
                                  !.dry_run = args.dry_run,
                                  !.log = {Msg("no_metadata", p, NoPath, FALSE)},
                                  !.twin = [status |-> "",
                                            decisions |-> {[act |-> "no_metadata",
                                                            path |-> p, to |-> NoPath]}]]
    /\ todo' = todo \ {p}
    /\ pc' = IF todo' = {} THEN "returned" ELSE "walk"
    /\ UNCHANGED <<files, dirs, args>>
    /\ UNCHANGED <<fixVars, mergeVars>>

\* What a clean_orphaned_files call leaves: c is the call, tc the same call with
\* dry_run inverted.
Cleaned(dry_run, faults, c, tc) ==
    /\ files' = c.files
    /\ dirs' = c.dirs
    /\ result' = [NoResult EXCEPT !.op = "clean", !.dry_run = dry_run,
                                  !.log = c.log, !.faults = faults,
                                  !.twin = [status |-> "",
                                            decisions |-> Decisions(tc.log)]]

\* clean_orphaned_files is called.
Clean(recursive, dry_run, faults) ==
    /\ pc = "idle"
    /\ Cleaned(dry_run, faults,
               clean_orphaned_files(files, dirs, recursive, dry_run, faults),
               clean_orphaned_files(files, dirs, recursive, ~dry_run, faults))
    /\ args' = NoArgs
    /\ pc' = "returned"
    /\ todo' = {}
    /\ UNCHANGED <<fixVars, mergeVars>>

\* The call is over (it returned, or an exception ended it): the caller may call again.
Return ==
    /\ pc \in {"returned", "crashed"}
    /\ pc' = "idle"
    /\ args' = NoArgs
    /\ todo' = {}
    /\ result' = NoResult
    /\ UNCHANGED <<files, dirs>>
    /\ UNCHANGED <<fixVars, mergeVars>>

Next ==
    \/ \E recursive \in BOOLEAN, a \in Args : Start(recursive, a)
    \/ \E p \in todo, faults \in SUBSET {"rename", "write"} : ProcessImage(p, faults)
    \/ \E p \in todo : SkipImage(p)
    \/ \E recursive \in BOOLEAN, dry_run \in BOOLEAN, faults \in SUBSET {"remove"} :
          Clean(recursive, dry_run, faults)
    \/ Return

Spec == Init /\ [][Next]_vars

(***************************************************************************)
(* SpecFix: fix_floating_point_filenames on every filename of at most      *)
(* MaxLen characters, applied to the filename and then to its own result   *)
(***************************************************************************)
Chars == {"0", "5", "9", ".", "a"}

Filenames == UNION {[1..n -> Chars] : n \in 0..MaxLen}

InitFix ==
    /\ filename \in Filenames
    /\ halfUp \in BOOLEAN
    /\ fixed = <<>>
    /\ MergeIdle
    /\ MainIdle

ApplyFix ==
    /\ Len(fixed) < 2
    /\ fixed' = Append(fixed,
                       fix_floating_point_filenames(
                           IF fixed = <<>> THEN filename ELSE fixed[Len(fixed)]))
    /\ UNCHANGED <<filename, halfUp>>
    /\ UNCHANGED <<mergeVars, mainVars>>

NextFix == ApplyFix

SpecFix == InitFix /\ [][NextFix]_vars

(***************************************************************************)
(* SpecMerge: merge_json_data on every pair of ordered mappings over Keys  *)
(***************************************************************************)
Keys == {PTP, "a", "b"}

Entries ==
    {Scalar(key, v) : key \in Keys \ {PTP}, v \in {1, 2}}
    \cup {List(PTP, <<c>>) : c \in Commands}

Mappings ==
    {d \in UNION {[1..n -> Entries] : n \in 0..Cardinality(Keys)} :
        \A i, j \in 1..Len(d) : i # j => d[i].k # d[j].k}

InitMerge ==
    /\ existing_json \in Mappings
    /\ new_json \in Mappings
    /\ merged = <<>>
    /\ FixIdle
    /\ MainIdle

Merge ==
    /\ merged = <<>>
    /\ merged' = <<merge_json_data(existing_json, new_json)>>
    /\ UNCHANGED <<existing_json, new_json>>
    /\ UNCHANGED <<fixVars, mainVars>>

NextMerge == Merge

SpecMerge == InitMerge /\ [][NextMerge]_vars

(***************************************************************************)
(* Properties of fix_floating_point_filenames                              *)
(***************************************************************************)
\* The matches of \d+\.\d+ a left-to-right scan finds in name, and the text between.
MatchesOf(name) ==
    LET parts == ReSplit(name) IN [i \in 1..(Len(parts) \div 2) |-> parts[2 * i]]

TextsOf(name) ==
    LET parts == ReSplit(name) IN [i \in 1..((Len(parts) + 1) \div 2) |-> parts[2 * i - 1]]

FractionLen(part) == Len(part) - (DigitRunEnd(part, 1) + 1)

\* C6: fix_floating_point_filenames is idempotent; every match of the decimal
\* pattern in its result has exactly two digits after the point; and the text
\* outside the matches is that of the filename, unchanged.
C6_FixIdempotentTwoDigits ==
    /\ Len(fixed) >= 1 =>
          /\ \A i \in 1..Len(MatchesOf(fixed[1])) :
                FractionLen(MatchesOf(fixed[1])[i]) = 2
          /\ Len(MatchesOf(fixed[1])) = Len(MatchesOf(filename))
          /\ TextsOf(fixed[1]) = TextsOf(filename)
    /\ Len(fixed) = 2 => fixed[2] = fixed[1]

\* A filename with a decimal that the first application rewrote, applied twice.
C6_Witness ==
    /\ Len(fixed) = 2
    /\ Len(MatchesOf(filename)) >= 1
    /\ fixed[1] # filename
    /\ \E i \in 1..Len(filename) : filename[i] = "a"

(***************************************************************************)
(* Properties of merge_json_data                                           *)
(***************************************************************************)
OtherKeys(d) ==
    LET NotPTP(key) == key # PTP IN SelectSeq(KeysOf(d), NotPTP)

NewKeys(existing, incoming) ==
    LET IsNew(key) == key # PTP /\ ~HasKey(existing, key)
    IN SelectSeq(KeysOf(incoming), IsNew)

\* C4: the result's keys are post_training_processing first (when either input has
\* it), then existing's other keys in existing's order, then incoming's keys that
\* existing lacks in incoming's order; post_training_processing comes from existing
\* when existing has it, else from incoming; every key of existing keeps
\* existing's value.
C4_MergeOrderAndPrecedence ==
    merged # <<>> =>
        LET m == merged[1] IN
        /\ KeysOf(m) =
              (IF HasKey(existing_json, PTP) \/ HasKey(new_json, PTP)
               THEN <<PTP>> ELSE <<>>)
              \o OtherKeys(existing_json)
              \o NewKeys(existing_json, new_json)
        /\ Range(KeysOf(m)) = Range(KeysOf(existing_json)) \cup Range(KeysOf(new_json))
        /\ \A i \in 1..Len(existing_json) :
              DictGet(m, existing_json[i].k) = existing_json[i]
        /\ \A i \in 1..Len(new_json) :
              ~HasKey(existing_json, new_json[i].k) =>
                  DictGet(m, new_json[i].k) = new_json[i]

\* Both inputs hold post_training_processing, with different lists, and a further
\* key with different values; incoming holds a key existing lacks.
C4_Witness ==
    /\ merged # <<>>
    /\ HasKey(existing_json, PTP) /\ HasKey(new_json, PTP)
    /\ DictGet(existing_json, PTP) # DictGet(new_json, PTP)
    /\ existing_json[1].k # PTP
    /\ \E i \in 1..Len(existing_json) :
          /\ existing_json[i].k # PTP
          /\ HasKey(new_json, existing_json[i].k)
          /\ DictGet(new_json, existing_json[i].k) # existing_json[i]
    /\ \E i \in 1..Len(new_json) : ~HasKey(existing_json, new_json[i].k)

(***************************************************************************)
(* Properties of the calls on the filesystem                               *)
(***************************************************************************)
\* The step is a write_metadata call that no system call failed in.
WriteStep == pc = "walk" /\ result'.op = "write" /\ result'.faults = {}

\* p's .json sidecar is a JSON object whose post_training_processing lists command.
SidecarLists(fs, p, command) ==
    LET j == WithSuffix(p, "json") IN
    /\ Exists(fs, j)
    /\ fs[j].doc.valid
    /\ HasKey(fs[j].doc.map, PTP)
    /\ command \in Range(DictGet(fs[j].doc.map, PTP).list)

\* C1: a write_metadata call without force_json, for an image whose .json sidecar
\* already lists the command (an earlier run of that command wrote it), takes the
\* already-processed return and leaves the sidecar's content as it was.
C1_RerunSkips ==
    [][(/\ WriteStep
        /\ ~args.force_json
        /\ SidecarLists(files, result'.arg, args.command))
       => (/\ result'.status = "skipped"
           /\ \E q \in DOMAIN files' :
                 /\ q.dir = result'.arg.dir
                 /\ q.ext = "json"
                 /\ files'[q] = files[WithSuffix(result'.arg, "json")])]_vars

\* C2: a write_metadata call with force_json that writes the .json sidecar of an
\* image whose sidecar held a post_training_processing list leaves in the sidecar
\* that list followed by the command.
C2_ForceAppends ==
    [][(/\ WriteStep
        /\ args.force_json
        /\ ~args.dry_run
        /\ result'.status = "json"
        /\ Exists(files, WithSuffix(result'.arg, "json"))
        /\ files[WithSuffix(result'.arg, "json")].doc.valid
        /\ HasKey(files[WithSuffix(result'.arg, "json")].doc.map, PTP))
       => DictGet(files'[result'.written].doc.map, PTP).list
             = Append(DictGet(files[WithSuffix(result'.arg, "json")].doc.map, PTP).list,
                      args.command)]_vars

\* C3: a call with dry_run set leaves every file, its content and every directory
\* as they were.
C3_DryRunChangesNothing ==
    [][result'.dry_run => (files' = files /\ dirs' = dirs)]_vars

\* A dry run of write_metadata that reported a rename and a sidecar it would write.
C3_Witness ==
    /\ result.op = "write"
    /\ result.dry_run
    /\ \E e \in result.log : e.act = "rename" /\ e.dry
    /\ \E e \in result.log : e.act = "overwrite" /\ e.dry

\* An image of p's directory has p's stem and an extension the walker takes for
\* an image's.
HasCompanion(fs, p) ==
    \E q \in DOMAIN fs :
        q.dir = p.dir /\ q.stem = p.stem /\ Lower(q.ext) \in ImageExts

\* C5: clean_orphaned_files without dry_run, no removal failing, deletes no .json
\* or .txt file whose companion image exists, and deletes every .json or .txt file
\* of the directory that has none.
C5_CleanDeletesOrphansOnly ==
    [][(pc = "idle" /\ result'.op = "clean" /\ ~result'.dry_run /\ result'.faults = {})
       => \A p \in DOMAIN files :
             Lower(p.ext) \in SidecarExts =>
                 /\ HasCompanion(files, p) => p \in DOMAIN files'
                 /\ (p.dir = "root" /\ ~HasCompanion(files, p)) => p \notin DOMAIN files']_vars

\* C7: no exception leaves write_metadata and ends process_image_files.
C7_NoFailureEscapes == pc # "crashed"

\* C8: when a write_metadata call without dry_run is over, the sidecars it renamed
\* or wrote are in the image's directory under the image's stem.
C8_SidecarSharesStem ==
    (/\ result.op = "write"
     /\ ~result.dry_run
     /\ result.faults = {}
     /\ result.status \in {"json", "txt", "skipped"})
    => \A s \in result.sidecars :
          s.dir = result.image.dir /\ s.stem = result.image.stem

\* C9: the first key of every .json sidecar write_metadata writes is
\* post_training_processing.
C9_ProvenanceFirst ==
    (result.op = "write" /\ result.written # NoPath /\ result.written.ext = "json")
    => files[result.written].doc.map[1].k = PTP

\* C10: a call and the same call with dry_run inverted, on the same filesystem and
\* with no system call failing, choose the same sidecar variant and report the same
\* renames, sidecar paths and deletions.
C10_DryRunSameDecisions ==
    (result.op \in {"write", "clean"} /\ result.faults = {})
    => [status |-> result.status, decisions |-> Decisions(result.log)] = result.twin

====
